---- MODULE Spec2Model ----
(***************************************************************************)
(* A model of app.py, the Streamlit PDF toolbox: the two page-selection    *)
(* parsers (parse_page_ranges, parse_reorder), the page-assembly functions *)
(* (extract_pages, delete_pages, rotate_pages, encrypt_pdf) and the button *)
(* handlers of the split, reorder, rotate and encrypt tabs.                *)
(*                                                                         *)
(* A Python str is a sequence of one-character strings; a PDF document is  *)
(* the sequence of its pages; a page is a record of the index it had in    *)
(* the uploaded file and its /Rotate value.                                *)
(***************************************************************************)
EXTENDS Integers, Sequences, FiniteSets

VARIABLES
    tab,         \* the tab whose file_uploader holds a file ("parser": none, a bare call)
    pc,          \* "idle" before a click, then the name of the code that ran
    n,           \* page count of the uploaded file (get_page_count)
    ranges_str,  \* text of the page-range input (split tab, rotate tab, parser calls)
    del_str,     \* text of the delete-list input of the reorder tab
    order_str,   \* text of the order input of the reorder tab
    angle,       \* value of the rotate tab's selectbox
    rotate_map,  \* rotate_map argument of a direct rotate_pages call
    user_pwd,    \* encrypt tab: user password input
    owner_pwd,   \* encrypt tab: owner password input
    result,      \* outcome of a parser call: value returned or error raised
    download,    \* the document handed to st.download_button, if any
    messages     \* the st.error / st.warning messages shown by the run

vars == <<tab, pc, n, ranges_str, del_str, order_str, angle, rotate_map,
          user_pwd, owner_pwd, result, download, messages>>

----------------------------------------------------------------------------
(* Bounds of the explored inputs *)

\* longest selection string enumerated exhaustively for a single text input
MaxLen == 4
\* largest page count of an uploaded document
MaxPage == 3
\* longest order string (reorder tab) and page string (rotate tab) enumerated
MaxTabLen == 3
\* longest delete list (reorder tab) enumerated beside every order string
MaxDelLen == 2
\* longest password enumerated
MaxPwdLen == 2

----------------------------------------------------------------------------
(* Python strings *)

Digits == {"0", "1", "2", "3", "4", "5", "6", "7", "8", "9"}

DigitVal(c) ==
    CASE c = "0" -> 0 [] c = "1" -> 1 [] c = "2" -> 2 [] c = "3" -> 3
      [] c = "4" -> 4 [] c = "5" -> 5 [] c = "6" -> 6 [] c = "7" -> 7
      [] c = "8" -> 8 [] c = "9" -> 9

\* the characters \s matches, among those the model types
IsSpace(c) == c = " "

\* the separator class [,\s] of the tokenizer
IsSep(c) == c = "," \/ IsSpace(c)

RECURSIVE lstrip(_)
lstrip(s) ==
    IF s # <<>> /\ IsSpace(Head(s)) THEN lstrip(Tail(s)) ELSE s

RECURSIVE rstrip(_)
rstrip(s) ==
    IF s # <<>> /\ IsSpace(s[Len(s)]) THEN rstrip(SubSeq(s, 1, Len(s) - 1)) ELSE s

\* str.strip()
strip(s) == rstrip(lstrip(s))

\* first position at or after i that holds no separator (Len(s)+1 if none)
RECURSIVE SkipSeps(_, _)
SkipSeps(s, i) ==
    IF i <= Len(s) /\ IsSep(s[i]) THEN SkipSeps(s, i + 1) ELSE i

\* re.split(r"[,\s]+", s): the pieces between maximal separator runs; a
\* leading or trailing run leaves an empty piece
RECURSIVE SplitFrom(_, _, _)
SplitFrom(s, i, cur) ==
    IF i > Len(s) THEN <<cur>>
    ELSE IF IsSep(s[i]) THEN <<cur>> \o SplitFrom(s, SkipSeps(s, i), <<>>)
    ELSE SplitFrom(s, i + 1, Append(cur, s[i]))

re_split(s) == SplitFrom(s, 1, <<>>)

\* "-" in tok
HasDash(tok) == \E i \in 1..Len(tok) : tok[i] = "-"

FirstDash(tok) == CHOOSE i \in 1..Len(tok) : tok[i] = "-" /\ \A j \in 1..(i - 1) : tok[j] # "-"

\* tok.split("-", 1), for a token that holds a "-"
split_dash(tok) ==
    <<SubSeq(tok, 1, FirstDash(tok) - 1), SubSeq(tok, FirstDash(tok) + 1, Len(tok))>>

RECURSIVE DecimalValue(_)
DecimalValue(ds) ==
    IF ds = <<>> THEN 0
    ELSE 10 * DecimalValue(SubSeq(ds, 1, Len(ds) - 1)) + DigitVal(ds[Len(ds)])

\* int(s): an optional sign, then one or more digits; anything else raises
\* ValueError (ok = FALSE)
py_int(s) ==
    LET signed == s # <<>> /\ s[1] \in {"-", "+"}
        body   == IF signed THEN Tail(s) ELSE s
        good   == body # <<>> /\ \A i \in 1..Len(body) : body[i] \in Digits
    IN  IF ~good THEN [ok |-> FALSE, val |-> 0]
        ELSE [ok |-> TRUE,
              val |-> IF signed /\ s[1] = "-" THEN 0 - DecimalValue(body)
                      ELSE DecimalValue(body)]

----------------------------------------------------------------------------
(* Results of a parser call *)

Returned(v) == [ok |-> TRUE, val |-> v, err |-> ""]
Raised(e)   == [ok |-> FALSE, val |-> <<>>, err |-> e]
NoResult    == [ok |-> FALSE, val |-> <<>>, err |-> "not called"]

\* list(range(lo, hi))
RangeUp(lo, hi) == [i \in 1..(IF hi > lo THEN hi - lo ELSE 0) |-> lo + i - 1]

\* list(range(hi, lo, -1))
RangeDown(hi, lo) == [i \in 1..(IF hi > lo THEN hi - lo ELSE 0) |-> hi - i + 1]

\* sorted with the comparison turned round
RECURSIVE sorted_desc(_)
sorted_desc(S) ==
    IF S = {} THEN <<>>
    ELSE LET m == CHOOSE x \in S : \A y \in S : x >= y
         IN  <<m>> \o sorted_desc(S \ {m})

RECURSIVE sorted(_)
sorted(S) ==
    IF S = {} THEN <<>>
    ELSE LET m == CHOOSE x \in S : \A y \in S : x <= y
         IN  <<m>> \o sorted(S \ {m})

----------------------------------------------------------------------------
(* parse_page_ranges *)

\* the range check of parse_page_ranges, negated: the range is accepted
page_range_ok(start, end, max_page) ==
    ~(start < 1 \/ end < 1 \/ start > max_page \/ end > max_page \/ start > end)

\* page_ok without the lower limit
page_ok_upper(p, max_page) == ~(p > max_page)

\* the single-page check shared by both parsers, negated
page_ok(p, max_page) == ~(p < 1 \/ p > max_page)

\* range_pages that stops one page short: range(start - 1, end - 1)
range_pages_short(start, end) ==
    {RangeUp(start - 1, end - 1)[i] : i \in 1..Len(RangeUp(start - 1, end - 1))}

\* the pages a range token adds: for p in range(start - 1, end)
range_pages(start, end) == {RangeUp(start - 1, end)[i] : i \in 1..Len(RangeUp(start - 1, end))}

\* the for-loop over the tokens, from token k on, with the set built so far
RECURSIVE PageRangesLoop(_, _, _, _)
PageRangesLoop(tokens, k, pages, max_page) ==
    IF k > Len(tokens) THEN Returned(sorted(pages))
    ELSE LET tok == tokens[k] IN
         IF tok = <<>> THEN PageRangesLoop(tokens, k + 1, pages, max_page)
         ELSE IF HasDash(tok) THEN
             LET a == py_int(split_dash(tok)[1])
                 b == py_int(split_dash(tok)[2])
             IN  IF ~a.ok \/ ~b.ok THEN Raised("invalid range")
                 ELSE IF ~page_range_ok(a.val, b.val, max_page)
                      THEN Raised("out of page range or invalid")
                 ELSE PageRangesLoop(tokens, k + 1,
                                     pages \cup range_pages(a.val, b.val), max_page)
         ELSE
             LET p == py_int(tok)
             IN  IF ~p.ok THEN Raised("invalid page number")
                 ELSE IF ~page_ok(p.val, max_page) THEN Raised("page out of range")
                 ELSE PageRangesLoop(tokens, k + 1, pages \cup {p.val - 1}, max_page)

parse_page_ranges(str, max_page) ==
    IF strip(str) = <<>> THEN Returned(<<>>)
    ELSE PageRangesLoop(re_split(strip(str)), 1, {}, max_page)

----------------------------------------------------------------------------
(* parse_reorder *)

\* the range check of parse_reorder, negated
reorder_range_ok(start, end, max_page) ==
    ~(start < 1 \/ end < 1 \/ start > max_page \/ end > max_page)

\* reorder_range whose descending branch leaves out the last page:
\* range(start - 1, end - 1, -1)
reorder_range_short(start, end) ==
    IF start <= end THEN RangeUp(start - 1, end)
    ELSE RangeDown(start - 1, end - 1)

\* what a range token appends to seq
reorder_range(start, end) ==
    IF start <= end THEN RangeUp(start - 1, end)
    ELSE RangeDown(start - 1, end - 2)

RECURSIVE ReorderLoop(_, _, _, _)
ReorderLoop(tokens, k, seq, max_page) ==
    IF k > Len(tokens) THEN Returned(seq)
    ELSE LET tok == tokens[k] IN
         IF tok = <<>> THEN ReorderLoop(tokens, k + 1, seq, max_page)
         ELSE IF HasDash(tok) THEN
             LET a == py_int(split_dash(tok)[1])
                 b == py_int(split_dash(tok)[2])
             IN  IF ~a.ok \/ ~b.ok THEN Raised("invalid range")
                 ELSE IF ~reorder_range_ok(a.val, b.val, max_page)
                      THEN Raised("out of page range")
                 ELSE ReorderLoop(tokens, k + 1,
                                  seq \o reorder_range(a.val, b.val), max_page)
         ELSE
             LET p == py_int(tok)
             IN  IF ~p.ok THEN Raised("invalid literal for int()")
                 ELSE IF ~page_ok(p.val, max_page) THEN Raised("page out of range")
                 ELSE ReorderLoop(tokens, k + 1, Append(seq, p.val - 1), max_page)

parse_reorder(str, max_page) ==
    IF strip(str) = <<>> THEN Returned(<<>>)
    ELSE ReorderLoop(re_split(strip(str)), 1, <<>>, max_page)

----------------------------------------------------------------------------
(* Inputs *)

\* the characters typed into a selection input
Chars == {"0", "1", "2", "3", "-", ",", " ", "x"}

StringsOver(alphabet, maxlen) == UNION {[1..k -> alphabet] : k \in 0..maxlen}

Strings == StringsOver(Chars, MaxLen)

PageCounts == 1..MaxPage

\* the calls the documentation of the parsers gives as examples
Ex_1to3_5_7to9 == <<"1", "-", "3", ",", "5", ",", "7", "-", "9">>
Ex_10to7       == <<"1", "0", "-", "7">>
Ex_1to3_5to4   == <<"1", "-", "3", ",", "5", "-", "4">>
Ex_overlap     == <<"1", "-", "3", ",", "2", ",", "3", "-", "3">>
Ex_0           == <<"0">>
Ex_6           == <<"6">>
Ex_5to3        == <<"5", "-", "3">>
Ex_blank       == <<" ", " ", " ", " ", " ">>

ExampleCalls ==
    {<<Ex_1to3_5_7to9, 9>>, <<Ex_10to7, 10>>, <<Ex_1to3_5to4, 5>>,
     <<Ex_overlap, 3>>, <<Ex_0, 5>>, <<Ex_6, 5>>, <<Ex_5to3, 9>>,
     <<Ex_blank, 5>>, <<Ex_1to3_5_7to9, 10>>, <<Ex_1to3_5to4, 9>>}

ParserCalls == (Strings \X PageCounts) \cup ExampleCalls

NoDownload == [offered |-> FALSE, pages |-> <<>>, encryption |-> <<>>]

\* the widgets a tab does not use keep their defaults
Defaults ==
    /\ pc = "idle"
    /\ result = NoResult
    /\ download = NoDownload
    /\ messages = {}

----------------------------------------------------------------------------
(* The parsers called on their own *)

InitParse ==
    /\ tab = "parser"
    /\ Defaults
    /\ \E c \in ParserCalls : ranges_str = c[1] /\ n = c[2]
    /\ del_str = <<>> /\ order_str = <<>>
    /\ angle = 90 /\ rotate_map = <<>>
    /\ user_pwd = <<>> /\ owner_pwd = <<>>

CallParsePageRanges ==
    /\ tab = "parser"
    /\ pc = "idle"
    /\ pc' = "parse_page_ranges"
    /\ result' = parse_page_ranges(ranges_str, n)
    /\ UNCHANGED <<tab, n, ranges_str, del_str, order_str, angle, rotate_map,
                   user_pwd, owner_pwd, download, messages>>

CallParseReorder ==
    /\ tab = "parser"
    /\ pc = "idle"
    /\ pc' = "parse_reorder"
    /\ result' = parse_reorder(ranges_str, n)
    /\ UNCHANGED <<tab, n, ranges_str, del_str, order_str, angle, rotate_map,
                   user_pwd, owner_pwd, download, messages>>

NextParse == CallParsePageRanges \/ CallParseReorder

SpecParse == InitParse /\ [][NextParse]_vars

----------------------------------------------------------------------------
(* Documents and page assembly *)

\* the uploaded file read by PdfReader: n pages; page i of the file carries
\* its index and the /Rotate value the file gave it
SourceDoc(count) == [i \in 1..count |-> [id |-> i - 1, rot |-> 90 * ((i - 1) % 2)]]

\* set(xs) of a list
ToSet(xs) == {xs[i] : i \in 1..Len(xs)}

\* [reader.pages[i] for i in idxs], added to the writer in that order
Pick(doc, idxs) == [k \in 1..Len(idxs) |-> doc[idxs[k] + 1]]

extract_pages(doc, page_indices) == Pick(doc, page_indices)

\* delete_keep with the test inverted: it keeps the selected pages
delete_keep_selected(doc, page_indices) ==
    SelectSeq(RangeUp(0, Len(doc)), LAMBDA i : i \in ToSet(page_indices))

\* keep = [i for i in range(len(reader.pages)) if i not in set(page_indices)]
delete_keep(doc, page_indices) ==
    SelectSeq(RangeUp(0, Len(doc)), LAMBDA i : i \notin ToSet(page_indices))

delete_pages(doc, page_indices) == Pick(doc, delete_keep(doc, page_indices))

\* page.rotate(a): pypdf adds a to the page's /Rotate
rotate(page, a) == [page EXCEPT !.rot = page.rot + a]

\* rotates without the test of the angle
rotates_any_angle(i, rmap) == i \in DOMAIN rmap

\* the test that guards page.rotate in rotate_pages
rotates(i, rmap) == i \in DOMAIN rmap /\ rmap[i] \in {90, 180, 270}

rotate_pages(doc, rmap) ==
    [k \in 1..Len(doc) |-> IF rotates(k - 1, rmap) THEN rotate(doc[k], rmap[k - 1])
                           ELSE doc[k]]

\* Python's None, where a str is expected: no str is a sequence holding it
None == <<"None">>

Truthy(x) == x # None /\ x # <<>>

\* x or y
Or(x, y) == IF Truthy(x) THEN x ELSE y

\* encrypt_pdf that passes owner_pwd on as given: writer.encrypt(user_pwd, owner_pwd)
encrypt_pdf_no_default(doc, user, owner) ==
    [pages |-> doc, encryption |-> <<user, owner>>]

\* writer.encrypt(user_pwd, owner_pwd or user_pwd) over all pages; the
\* allow_print / allow_copy arguments are not used by the function
encrypt_pdf(doc, user, owner) ==
    [pages |-> doc, encryption |-> <<user, Or(owner, user)>>]

\* bytes_download_button(out.getvalue(), ...)
Offer(pages) == [offered |-> TRUE, pages |-> pages, encryption |-> <<>>]

OfferEncrypted(e) == [offered |-> TRUE, pages |-> e.pages, encryption |-> e.encryption]

----------------------------------------------------------------------------
(* Split tab: extract and delete buttons *)

InitSplit ==
    /\ tab = "split"
    /\ Defaults
    /\ \E c \in ParserCalls : ranges_str = c[1] /\ n = c[2]
    /\ del_str = <<>> /\ order_str = <<>>
    /\ angle = 90 /\ rotate_map = <<>>
    /\ user_pwd = <<>> /\ owner_pwd = <<>>

ExtractButton ==
    /\ tab = "split"
    /\ pc = "idle"
    /\ pc' = "extract"
    /\ LET idxs == parse_page_ranges(ranges_str, n) IN
       IF ~idxs.ok
       THEN /\ messages' = {"error: parse failed"}
            /\ download' = NoDownload
       ELSE IF idxs.val = <<>>
       THEN /\ messages' = {"warning: no page range given"}
            /\ download' = NoDownload
       ELSE /\ messages' = {}
            /\ download' = Offer(extract_pages(SourceDoc(n), idxs.val))
    /\ UNCHANGED <<tab, n, ranges_str, del_str, order_str, angle, rotate_map,
                   user_pwd, owner_pwd, result>>

DeleteButton ==
    /\ tab = "split"
    /\ pc = "idle"
    /\ pc' = "delete"
    /\ LET idxs == parse_page_ranges(ranges_str, n) IN
       IF ~idxs.ok
       THEN /\ messages' = {"error: parse failed"}
            /\ download' = NoDownload
       ELSE IF idxs.val = <<>>
       THEN /\ messages' = {"warning: no page range given"}
            /\ download' = NoDownload
       ELSE /\ messages' = {}
            /\ download' = Offer(delete_pages(SourceDoc(n), idxs.val))
    /\ UNCHANGED <<tab, n, ranges_str, del_str, order_str, angle, rotate_map,
                   user_pwd, owner_pwd, result>>

\* the next interaction reruns the script: the messages and the download
\* button of the last run are gone
Rerun ==
    /\ pc \notin {"idle", "parse_page_ranges", "parse_reorder", "rotate_pages"}
    /\ pc' = "idle"
    /\ messages' = {}
    /\ download' = NoDownload
    /\ UNCHANGED <<tab, n, ranges_str, del_str, order_str, angle, rotate_map,
                   user_pwd, owner_pwd, result>>

NextSplit == ExtractButton \/ DeleteButton \/ Rerun

SpecSplit == InitSplit /\ [][NextSplit]_vars

----------------------------------------------------------------------------
(* Reorder tab *)

\* the characters typed into the two inputs of the reorder tab and into the
\* rotate tab's page input, where they are enumerated
TabChars == {"1", "2", "-", ","}

TabStrings == StringsOver(TabChars, MaxTabLen)

DelStrings == StringsOver(TabChars, MaxDelLen)

Ex_2    == <<"2">>
Ex_1to5 == <<"1", "-", "5">>

\* <<page count, delete list, order>>
ReorderInputs ==
    (PageCounts \X DelStrings \X TabStrings)
    \cup {<<5, Ex_2, Ex_1to5>>, <<5, Ex_2, Ex_1to3_5to4>>, <<5, Ex_6, Ex_1to5>>,
          <<5, Ex_blank, Ex_blank>>, <<5, Ex_2, Ex_blank>>, <<5, Ex_1to5, Ex_blank>>,
          <<5, Ex_1to3_5to4, Ex_1to5>>, <<9, Ex_1to3_5_7to9, Ex_1to3_5to4>>,
          <<3, Ex_overlap, Ex_overlap>>}

\* str.replace(",", " ")
replace_commas(s) == [i \in 1..Len(s) |-> IF s[i] = "," THEN " " ELSE s[i]]

\* the parse of the delete list, run whenever the script runs
parse_del(str, count) == parse_page_ranges(replace_commas(str), count)

\* del_set after the delete-list block
del_set_of(str, count) ==
    IF strip(str) # <<>> /\ parse_del(str, count).ok
    THEN ToSet(parse_del(str, count).val)
    ELSE {}

del_failed(str, count) == strip(str) # <<>> /\ ~parse_del(str, count).ok

\* after_delete_idxs = [i for i in range(n2) if i not in del_set]
after_delete_idxs(count, del_set) ==
    SelectSeq(RangeUp(0, count), LAMBDA i : i \notin del_set)

\* keep_order that forgets the filter
keep_order_all(re_idx, after_delete) == re_idx

\* [i for i in re_idx if i in after_delete_idxs]
keep_order(re_idx, after_delete) ==
    SelectSeq(re_idx, LAMBDA i : i \in ToSet(after_delete))

order_failed(str, count) == strip(str) # <<>> /\ ~parse_reorder(str, count).ok

\* final_idxs of the export handler
final_idxs(str, count, del_set) ==
    IF strip(str) # <<>>
    THEN IF parse_reorder(str, count).ok
         THEN keep_order(parse_reorder(str, count).val, after_delete_idxs(count, del_set))
         ELSE after_delete_idxs(count, del_set)
    ELSE after_delete_idxs(count, del_set)

InitReorder ==
    /\ tab = "reorder"
    /\ Defaults
    /\ \E c \in ReorderInputs : n = c[1] /\ del_str = c[2] /\ order_str = c[3]
    /\ ranges_str = <<>>
    /\ angle = 90 /\ rotate_map = <<>>
    /\ user_pwd = <<>> /\ owner_pwd = <<>>

ReorderButton ==
    /\ tab = "reorder"
    /\ pc = "idle"
    /\ pc' = "reorder"
    /\ LET plan == final_idxs(order_str, n, del_set_of(del_str, n)) IN
       /\ messages' =
             (IF del_failed(del_str, n) THEN {"error: delete list parse failed"} ELSE {})
             \cup (IF order_failed(order_str, n) THEN {"error: order parse failed"} ELSE {})
             \cup (IF plan = <<>> THEN {"warning: no pages to export"} ELSE {})
       /\ download' = IF plan = <<>> THEN NoDownload ELSE Offer(Pick(SourceDoc(n), plan))
    /\ UNCHANGED <<tab, n, ranges_str, del_str, order_str, angle, rotate_map,
                   user_pwd, owner_pwd, result>>

NextReorder == ReorderButton \/ Rerun

SpecReorder == InitReorder /\ [][NextReorder]_vars

----------------------------------------------------------------------------
(* Rotate tab *)

\* the options of the angle selectbox
AngleOptions == {90, 180, 270}

\* the angles a caller of rotate_pages may pass
Angles == {0, 45, 90, 180, 270}

\* the rotate_map arguments of a direct call: any dict from page indices,
\* some past the last page, to angles
RotateMaps == UNION {[d -> Angles] : d \in SUBSET (0..MaxPage)}

\* rotate_map = {i: angle for i in idxs}
map_of(idxs, a) == [i \in ToSet(idxs) |-> a]

InitRotate ==
    /\ tab = "rotate"
    /\ Defaults
    /\ n \in PageCounts
    /\ \/ ranges_str \in TabStrings /\ angle \in AngleOptions /\ rotate_map = <<>>
       \/ ranges_str = <<>> /\ angle = 90 /\ rotate_map \in RotateMaps
    /\ del_str = <<>> /\ order_str = <<>>
    /\ user_pwd = <<>> /\ owner_pwd = <<>>

RotateButton ==
    /\ tab = "rotate"
    /\ pc = "idle"
    /\ pc' = "rotate"
    /\ LET idxs == parse_page_ranges(ranges_str, n) IN
       IF ~idxs.ok
       THEN /\ messages' = {"error: parse failed"}
            /\ download' = NoDownload
       ELSE /\ messages' = IF idxs.val = <<>> THEN {"warning: no page given, nothing rotated"}
                           ELSE {}
            /\ download' = Offer(rotate_pages(SourceDoc(n), map_of(idxs.val, angle)))
    /\ UNCHANGED <<tab, n, ranges_str, del_str, order_str, angle, rotate_map,
                   user_pwd, owner_pwd, result>>

\* rotate_pages called on its own with rotate_map
CallRotatePages ==
    /\ tab = "rotate"
    /\ pc = "idle"
    /\ pc' = "rotate_pages"
    /\ messages' = {}
    /\ download' = Offer(rotate_pages(SourceDoc(n), rotate_map))
    /\ UNCHANGED <<tab, n, ranges_str, del_str, order_str, angle, rotate_map,
                   user_pwd, owner_pwd, result>>

NextRotate == RotateButton \/ CallRotatePages \/ Rerun

SpecRotate == InitRotate /\ [][NextRotate]_vars

----------------------------------------------------------------------------
(* Encrypt tab *)

Passwords == StringsOver({"a", "b"}, MaxPwdLen)

InitEncrypt ==
    /\ tab = "encrypt"
    /\ Defaults
    /\ n \in PageCounts
    /\ user_pwd \in Passwords /\ owner_pwd \in Passwords
    /\ ranges_str = <<>> /\ del_str = <<>> /\ order_str = <<>>
    /\ angle = 90 /\ rotate_map = <<>>

EncryptButton ==
    /\ tab = "encrypt"
    /\ pc = "idle"
    /\ pc' = "encrypt"
    /\ IF ~Truthy(user_pwd)
       THEN /\ messages' = {"error: set a user password"}
            /\ download' = NoDownload
       ELSE /\ messages' = {}
            /\ download' = OfferEncrypted(
                   encrypt_pdf(SourceDoc(n), user_pwd, Or(owner_pwd, None)))
    /\ UNCHANGED <<tab, n, ranges_str, del_str, order_str, angle, rotate_map,
                   user_pwd, owner_pwd, result>>

NextEncrypt == EncryptButton \/ Rerun

SpecEncrypt == InitEncrypt /\ [][NextEncrypt]_vars

----------------------------------------------------------------------------
(* The whole application: every tab, and the functions called on their own *)

Init == InitParse \/ InitSplit \/ InitReorder \/ InitRotate \/ InitEncrypt

Next ==
    \/ CallParsePageRanges
    \/ CallParseReorder
    \/ ExtractButton
    \/ DeleteButton
    \/ ReorderButton
    \/ RotateButton
    \/ CallRotatePages
    \/ EncryptButton
    \/ Rerun

Spec == Init /\ [][Next]_vars

----------------------------------------------------------------------------
(* The selection grammar, as the properties below read a string *)

\* the non-empty tokens of a selection string
RECURSIVE NonEmpty(_)
NonEmpty(toks) ==
    IF toks = <<>> THEN <<>>
    ELSE IF Head(toks) = <<>> THEN NonEmpty(Tail(toks))
    ELSE <<Head(toks)>> \o NonEmpty(Tail(toks))

TokensOf(str) == NonEmpty(re_split(strip(str)))

\* the numbers of a token: <<N>>, or <<A, B>> for a range
TokenInts(tok) ==
    IF HasDash(tok) THEN <<py_int(split_dash(tok)[1]), py_int(split_dash(tok)[2])>>
    ELSE <<py_int(tok)>>

WellFormed(tok) == \A k \in 1..Len(TokenInts(tok)) : TokenInts(tok)[k].ok

\* some N, A or B of the token is an integer outside 1..max_page
ValueOutside(tok, max_page) ==
    \E k \in 1..Len(TokenInts(tok)) :
        TokenInts(tok)[k].ok /\ TokenInts(tok)[k].val \notin 1..max_page

Descending(tok) ==
    /\ HasDash(tok)
    /\ WellFormed(tok)
    /\ TokenInts(tok)[1].val > TokenInts(tok)[2].val

\* valid in Sequence Mode: integers, all in 1..max_page
ValidSeqToken(tok, max_page) == WellFormed(tok) /\ ~ValueOutside(tok, max_page)

ValidSeqSpec(str, max_page) ==
    \A k \in 1..Len(TokensOf(str)) : ValidSeqToken(TokensOf(str)[k], max_page)

\* the 0-based expansion of one valid token, both endpoints included
Expansion(tok) ==
    IF ~HasDash(tok) THEN <<TokenInts(tok)[1].val - 1>>
    ELSE LET A == TokenInts(tok)[1].val
             B == TokenInts(tok)[2].val
         IN  IF A <= B THEN [i \in 1..(B - A + 1) |-> (A - 1) + (i - 1)]
             ELSE [i \in 1..(A - B + 1) |-> (A - 1) - (i - 1)]

RECURSIVE Concatenation(_)
Concatenation(toks) ==
    IF toks = <<>> THEN <<>> ELSE Expansion(Head(toks)) \o Concatenation(Tail(toks))

StrictlyAscending(xs) == \A i, j \in 1..Len(xs) : i < j => xs[i] < xs[j]

\* the original indices of the pages of a document
PageIds(pages) == [k \in 1..Len(pages) |-> pages[k].id]

\* xs without the elements of S, order and repeats kept
RECURSIVE Without(_, _)
Without(xs, S) ==
    IF xs = <<>> THEN <<>>
    ELSE IF Head(xs) \in S THEN Without(Tail(xs), S)
    ELSE <<Head(xs)>> \o Without(Tail(xs), S)

Blank(str) == \A i \in 1..Len(str) : str[i] = " "

----------------------------------------------------------------------------
(* Properties of the parsers *)

\* C1: whenever parse_page_ranges returns (max_page >= 1), the list is
\* strictly ascending, so free of duplicates, and every element is in
\* 0..max_page-1; also for overlapping or repeated tokens
C1_SetModeAscendingInRange ==
    (pc = "parse_page_ranges" /\ n >= 1 /\ result.ok) =>
        /\ StrictlyAscending(result.val)
        /\ \A i \in 1..Len(result.val) : 0 <= result.val[i] /\ result.val[i] < n

\* a call on "1-3,2,3-3", whose tokens overlap, has returned
C1_Witness ==
    /\ pc = "parse_page_ranges"
    /\ ranges_str = Ex_overlap /\ n = 3
    /\ result = Returned(<<0, 1, 2>>)

\* C2 as stated: parse_page_ranges("1-3,5,7-9", 9) returns
\* [0,1,2,3,4,6,7,8]
C2_SetModeExample ==
    (pc = "parse_page_ranges" /\ ranges_str = Ex_1to3_5_7to9 /\ n = 9) =>
        result = Returned(<<0, 1, 2, 3, 4, 6, 7, 8>>)

\* C2 amended: parse_page_ranges("1-3,5,7-9", 9) returns [0,1,2,4,6,7,8]:
\* page 4 (index 3) is not selected
C2_SetModeExampleAmended ==
    (pc = "parse_page_ranges" /\ ranges_str = Ex_1to3_5_7to9 /\ n = 9) =>
        result = Returned(<<0, 1, 2, 4, 6, 7, 8>>)

C2_Witness ==
    /\ pc = "parse_page_ranges"
    /\ ranges_str = Ex_1to3_5_7to9 /\ n = 9
    /\ result.ok /\ Len(result.val) = 7

\* C3: for every valid string parse_reorder returns the concatenation, in
\* token order, of the tokens' 0-based expansions (ascending for A <= B,
\* descending with both ends for A > B), nothing removed or reordered;
\* "10-7" of 10 pages gives [9,8,7,6], "1-3,5-4" of 5 gives [0,1,2,4,3]
C3_SequenceModeConcatenation ==
    /\ (pc = "parse_reorder" /\ ValidSeqSpec(ranges_str, n)) =>
           result = Returned(Concatenation(TokensOf(ranges_str)))
    /\ (pc = "parse_reorder" /\ ranges_str = Ex_10to7 /\ n = 10) =>
           result = Returned(<<9, 8, 7, 6>>)
    /\ (pc = "parse_reorder" /\ ranges_str = Ex_1to3_5to4 /\ n = 5) =>
           result = Returned(<<0, 1, 2, 4, 3>>)

\* a call with an ascending and then a descending range has returned
C3_Witness ==
    /\ pc = "parse_reorder"
    /\ ranges_str = Ex_1to3_5to4 /\ n = 5
    /\ result.ok /\ result.val = <<0, 1, 2, 4, 3>>

\* C4: both parsers raise, returning nothing, when any token holds a value
\* outside 1..max_page; parse_page_ranges raises on every descending range;
\* parse_reorder accepts a string whose tokens are all integers in range,
\* descending ranges included; "0" and "6" of 5 pages and "5-3" of 9 fail in
\* Set Mode; an empty or blank string gives [] in both modes
C4_Rejection ==
    /\ (pc \in {"parse_page_ranges", "parse_reorder"}
        /\ \E k \in 1..Len(TokensOf(ranges_str)) : ValueOutside(TokensOf(ranges_str)[k], n)) =>
           (~result.ok /\ result.val = <<>>)
    /\ (pc = "parse_page_ranges"
        /\ \E k \in 1..Len(TokensOf(ranges_str)) : Descending(TokensOf(ranges_str)[k])) =>
           (~result.ok /\ result.val = <<>>)
    /\ (pc = "parse_reorder" /\ ValidSeqSpec(ranges_str, n)) => result.ok
    /\ (pc = "parse_page_ranges"
        /\ <<ranges_str, n>> \in {<<Ex_0, 5>>, <<Ex_6, 5>>, <<Ex_5to3, 9>>}) => ~result.ok
    /\ (pc \in {"parse_page_ranges", "parse_reorder"} /\ Blank(ranges_str)) =>
           result = Returned(<<>>)

\* Set Mode has rejected "1,0": a valid token, then a value below 1
C4_Witness ==
    /\ pc = "parse_page_ranges"
    /\ ranges_str = <<"1", ",", "0">> /\ n = 2
    /\ ~result.ok

----------------------------------------------------------------------------
(* Properties of the split tab *)

\* C5 as stated: for every valid delete string the Delete button outputs
\* exactly the pages not selected, in ascending original order, so
\* pageCount - |parseSet(spec)| pages
C5_DeleteIsComplement ==
    (pc = "delete" /\ parse_page_ranges(ranges_str, n).ok) =>
        /\ download.offered
        /\ StrictlyAscending(PageIds(download.pages))
        /\ ToSet(PageIds(download.pages))
               = (0..(n - 1)) \ ToSet(parse_page_ranges(ranges_str, n).val)
        /\ \A k \in 1..Len(download.pages) :
               download.pages[k] = SourceDoc(n)[download.pages[k].id + 1]
        /\ Len(download.pages) = n - Len(parse_page_ranges(ranges_str, n).val)

\* C5 amended: the same for every valid delete string that selects at least
\* one page; a valid string that selects none gets a warning and no output
C5_DeleteIsComplementWhenSelected ==
    /\ (pc = "delete" /\ parse_page_ranges(ranges_str, n).ok
        /\ parse_page_ranges(ranges_str, n).val # <<>>) =>
           /\ download.offered
           /\ StrictlyAscending(PageIds(download.pages))
           /\ ToSet(PageIds(download.pages))
                  = (0..(n - 1)) \ ToSet(parse_page_ranges(ranges_str, n).val)
           /\ \A k \in 1..Len(download.pages) :
                  download.pages[k] = SourceDoc(n)[download.pages[k].id + 1]
           /\ Len(download.pages) = n - Len(parse_page_ranges(ranges_str, n).val)
    /\ (pc = "delete" /\ parse_page_ranges(ranges_str, n).ok
        /\ parse_page_ranges(ranges_str, n).val = <<>>) =>
           /\ ~download.offered
           /\ messages = {"warning: no page range given"}

\* Delete has exported a 9-page file without pages 1-3, 5, 7-9
C5_Witness ==
    /\ pc = "delete"
    /\ ranges_str = Ex_1to3_5_7to9 /\ n = 9
    /\ download.offered
    /\ PageIds(download.pages) = <<3, 5>>

\* C6: when the final index plan of Extract, Delete or Reorder is empty the
\* run reports that there is nothing to export and offers no document; no
\* zero-page document is ever offered
C6_EmptyPlanReported ==
    /\ pc \in {"extract", "delete", "reorder"} =>
           (download.offered => download.pages # <<>>)
    /\ (pc = "extract" /\ parse_page_ranges(ranges_str, n).ok
        /\ parse_page_ranges(ranges_str, n).val = <<>>) =>
           (~download.offered /\ messages # {})
    /\ (pc = "delete" /\ parse_page_ranges(ranges_str, n).ok
        /\ ToSet(parse_page_ranges(ranges_str, n).val) = 0..(n - 1)) =>
           (~download.offered /\ messages # {})
    /\ (pc = "reorder" /\ final_idxs(order_str, n, del_set_of(del_str, n)) = <<>>) =>
           (~download.offered /\ messages # {})

----------------------------------------------------------------------------
(* Properties of the reorder tab *)

\* C7: a selection string that fails to parse makes the operation report the
\* error and offer no document; in the reorder tab neither a failed order
\* string nor a failed delete list leads to an export
C7_ParseFailureStopsExport ==
    /\ (pc \in {"extract", "delete", "rotate"} /\ ~parse_page_ranges(ranges_str, n).ok) =>
           (~download.offered /\ messages # {})
    /\ (pc = "reorder" /\ ~Blank(order_str) /\ ~parse_reorder(order_str, n).ok) =>
           (~download.offered /\ messages # {})
    /\ (pc = "reorder" /\ ~Blank(del_str) /\ ~parse_page_ranges(del_str, n).ok) =>
           (~download.offered /\ messages # {})

\* the plan C8 describes for valid inputs
C8_Plan ==
    IF Blank(order_str)
    THEN Without(RangeUp(0, n), ToSet(parse_page_ranges(del_str, n).val))
    ELSE Without(parse_reorder(order_str, n).val, ToSet(parse_page_ranges(del_str, n).val))

\* C8: with valid strings the exported pages are parse_reorder(order) without
\* the indices of parse_page_ranges(delete), order and repeats kept, entries
\* naming deleted pages skipped without error; with an empty order, the pages
\* not deleted in ascending order; no deleted index is exported; 5 pages,
\* delete "2", order "1-5" gives [0,2,3,4]
C8_ReorderDeletePlan ==
    /\ (pc = "reorder" /\ parse_page_ranges(del_str, n).ok /\ parse_reorder(order_str, n).ok) =>
           /\ PageIds(download.pages) = C8_Plan
           /\ download.offered = (C8_Plan # <<>>)
           /\ \A k \in 1..Len(download.pages) :
                  /\ download.pages[k] = SourceDoc(n)[download.pages[k].id + 1]
                  /\ download.pages[k].id \notin ToSet(parse_page_ranges(del_str, n).val)
           /\ "error: order parse failed" \notin messages
           /\ "error: delete list parse failed" \notin messages
    /\ (pc = "reorder" /\ n = 5 /\ del_str = Ex_2 /\ order_str = Ex_1to5) =>
           PageIds(download.pages) = <<0, 2, 3, 4>>

\* an export whose order names a deleted page
C8_Witness ==
    /\ pc = "reorder"
    /\ n = 5 /\ del_str = Ex_2 /\ order_str = Ex_1to5
    /\ download.offered
    /\ Len(download.pages) = 4

----------------------------------------------------------------------------
(* Properties of the rotate tab *)

\* page k of the output is page k of the source, turned by a or left alone
Turned(k, a) ==
    download.pages[k] = [id |-> k - 1, rot |-> SourceDoc(n)[k].rot + a]

Untouched(k) == download.pages[k] = SourceDoc(n)[k]

\* C9: rotate outputs every page of the source in the original order; a page
\* is rotated only if its index is in the map with an angle of 90, 180 or
\* 270, and pages absent from the map or mapped to another angle are left
\* alone, without an error; an empty selection still exports the whole
\* document unrotated, with a warning
C9_RotateFrame ==
    /\ pc = "rotate_pages" =>
           /\ download.offered
           /\ Len(download.pages) = n
           /\ \A k \in 1..n :
                  IF (k - 1) \in DOMAIN rotate_map /\ rotate_map[k - 1] \in {90, 180, 270}
                  THEN Turned(k, rotate_map[k - 1])
                  ELSE Untouched(k)
    /\ (pc = "rotate" /\ parse_page_ranges(ranges_str, n).ok) =>
           /\ download.offered
           /\ Len(download.pages) = n
           /\ \A k \in 1..n :
                  IF (k - 1) \in ToSet(parse_page_ranges(ranges_str, n).val)
                  THEN Turned(k, angle)
                  ELSE Untouched(k)
           /\ "error: parse failed" \notin messages
    /\ (pc = "rotate" /\ parse_page_ranges(ranges_str, n).ok
        /\ parse_page_ranges(ranges_str, n).val = <<>>) =>
           /\ download.pages = SourceDoc(n)
           /\ messages = {"warning: no page given, nothing rotated"}

\* rotate_pages has run on a map that turns one page by 90, names another
\* with an angle outside the domain, and leaves a third out
C9_Witness ==
    /\ pc = "rotate_pages"
    /\ n = 3
    /\ DOMAIN rotate_map = {0, 1}
    /\ rotate_map[0] = 90 /\ rotate_map[1] = 45
    /\ download.offered

----------------------------------------------------------------------------
(* Properties of the encrypt tab *)

\* C10: with an empty user password Encrypt reports the missing password and
\* offers no document; with a user password it encrypts every page, the
\* owner password being the user password when the owner input is empty and
\* the owner input otherwise
C10_EncryptPasswords ==
    pc = "encrypt" =>
        IF user_pwd = <<>>
        THEN /\ ~download.offered
             /\ messages = {"error: set a user password"}
        ELSE /\ download.offered
             /\ download.pages = SourceDoc(n)
             /\ download.encryption =
                    <<user_pwd, IF owner_pwd = <<>> THEN user_pwd ELSE owner_pwd>>

\* an export encrypted with no owner password given
C10_Witness ==
    /\ pc = "encrypt"
    /\ user_pwd = <<"a">> /\ owner_pwd = <<>>
    /\ download.offered
    /\ download.encryption = <<user_pwd, user_pwd>>

====
